---- MODULE Spec2Model ----
(***************************************************************************)
(* kubectl-edit-secret: the edit/reconcile workflow of                     *)
(* pkg/cmd/edit_secret.go (EditSecretOptions.Run and its helpers), the     *)
(* editor resolution of Complete, and the YAML content codec.              *)
(*                                                                         *)
(* Text is modelled at character level: a string is a sequence of          *)
(* one-character strings.  A file's content is kept as the sequence of its *)
(* lines, i.e. as strings.Split(content, "\n"), which is a bijective       *)
(* representation of the byte content (strings.Join(lines, "\n") is its    *)
(* inverse), so equality of line sequences is bytes.Equal.                 *)
(***************************************************************************)
EXTENDS Integers, Sequences, FiniteSets, TLC

VARIABLES
    pc,             \* position of the control flow
    key,            \* o.key ("" = whole-secret mode)
    stored,         \* the secret as the repository holds it
    secret,         \* the *corev1.Secret that Get returned
    decodedData,    \* Run's decodedData
    editedData,     \* Run's editedData: [nil, val]
    tmpExists,      \* the temporary file exists on disk
    tmpContent,     \* its content (lines)
    beforeContent,  \* editInEditor's beforeContent
    afterContent,   \* editInEditor's afterContent
    outcome,        \* "", "cancelled", "nochange", "applied" or "error"
    errKind,        \* which error ended the run
    log,            \* the external calls made so far, in order
    sent,           \* the secret handed to Update: [called, Data, StringData]
    args,           \* inputs of the pure function under test
    result          \* its result

vars == <<pc, key, stored, secret, decodedData, editedData, tmpExists, tmpContent,
          beforeContent, afterContent, outcome, errKind, log, sent, args, result>>

----------------------------------------------------------------------------
(* Bounds *)

\* number of distinct field names of a secret
MaxKeys == 3
\* number of distinct field names given to the codec
MaxCodecKeys == 2
\* longest field value (characters) given to the codec
MaxValLen == 3
\* number of distinct field values a secret or an edit may hold in a run
MaxVals == 2

----------------------------------------------------------------------------
(* Characters and strings *)

NL == "\n"
SP == " "
HASH == "#"

KeyNames == <<"a", "b", "c", "d">>
Keys == {KeyNames[i] : i \in 1..MaxKeys}

\* characters a field value is built from
Alphabet == {"x", HASH, NL}

Strings(n) == UNION {[1..m -> Alphabet] : m \in 0..n}

EmptyMap == [k \in {} |-> <<>>]

\* every mapping from a subset of ks to a value of vs
MapsOver(ks, vs) == UNION {[d -> vs] : d \in SUBSET ks}

\* m with key k set to v (Go: m[k] = v)
Put(m, k, v) == [x \in DOMAIN m \cup {k} |-> IF x = k THEN v ELSE m[x]]

----------------------------------------------------------------------------
(* Content codec: createEditContent (yaml.Marshal) *)

HasNL(s) == \E i \in DOMAIN s : s[i] = NL

\* strings.Split(s, "\n")
RECURSIVE SplitLines(_)
SplitLines(s) ==
    IF ~HasNL(s) THEN <<s>>
    ELSE LET i == CHOOSE j \in DOMAIN s : s[j] = NL /\ \A h \in 1..(j-1) : s[h] # NL
         IN <<SubSeq(s, 1, i-1)>> \o SplitLines(SubSeq(s, i+1, Len(s)))

\* the scalar style the YAML encoder picks for a map[string]string value:
\* literal block for a value with a line break, double quotes for the empty
\* string (plain it would read back as null), single quotes for a value whose
\* first character is '#' (plain it would read as a comment), plain otherwise
ScalarStyle(s) ==
    IF HasNL(s) THEN "literal"
    ELSE IF s = <<>> THEN "double"
    ELSE IF s[1] = HASH THEN "single"
    ELSE "plain"

\* the header hints of a literal block: the indentation indicator when the
\* value starts with a break, and the chomping indicator
BlockHints(s) ==
    (IF s[1] = NL THEN <<"4">> ELSE <<>>)
    \o (IF s[Len(s)] # NL THEN <<"-">>
        ELSE IF Len(s) = 1 \/ s[Len(s)-1] = NL THEN <<"+">>
        ELSE <<>>)

Indent4 == <<SP, SP, SP, SP>>

\* the content lines of a literal block: every break-terminated segment of the
\* value, and the last segment when it is not empty; a non-empty line is
\* indented by four spaces, an empty line is written empty
BlockLines(s) ==
    LET parts == SplitLines(s)
        kept == IF parts[Len(parts)] = <<>> THEN SubSeq(parts, 1, Len(parts)-1) ELSE parts
    IN [i \in 1..Len(kept) |-> IF kept[i] = <<>> THEN <<>> ELSE Indent4 \o kept[i]]

\* the lines of one "key: value" entry
EntryLines(k, s) ==
    LET st == ScalarStyle(s)
    IN  IF st = "literal" THEN << <<k, ":", SP, "|">> \o BlockHints(s) >> \o BlockLines(s)
        ELSE IF st = "double" THEN << <<k, ":", SP, "\"">> \o s \o <<"\"">> >>
        ELSE IF st = "single" THEN << <<k, ":", SP, "'">> \o s \o <<"'">> >>
        ELSE << <<k, ":", SP>> \o s >>

\* yaml.Marshal(decodedData): the entries in sorted key order, "{}" for the
\* empty map; every line ends with a break
RECURSIVE MarshalFrom(_, _)
MarshalFrom(F, i) ==
    IF i > Len(KeyNames) THEN <<>>
    ELSE (IF KeyNames[i] \in DOMAIN F THEN EntryLines(KeyNames[i], F[KeyNames[i]]) ELSE <<>>)
         \o MarshalFrom(F, i + 1)

Marshal(F) == IF DOMAIN F = {} THEN << <<"{", "}">> >> ELSE MarshalFrom(F, 1)

\* the comment header of the edit document; the wording after '#' is
\* abbreviated to one token per line, the secret's name and namespace are in
\* the first two lines
Header ==
    << <<HASH, SP, "Editing secret: s">>,
       <<HASH, SP, "Namespace: n">>,
       <<HASH, SP>>,
       <<HASH, SP, "Modify the values below.">>,
       <<HASH, SP, "The values shown are DECODED">>,
       <<HASH, SP, "They will be base64-encoded">>,
       <<HASH>>,
       <<HASH, SP, "Save and exit to apply changes.">>,
       <<HASH>> >>

\* header + string(yamlContent); both end with a break, so the split content
\* ends with an empty line
createEditContent(F) == Header \o Marshal(F) \o << <<>> >>

----------------------------------------------------------------------------
(* Content codec: parseEditedContent (yaml.Unmarshal) *)

\* strings.TrimSpace, leading part
RECURSIVE TrimLeft(_)
TrimLeft(l) == IF l # <<>> /\ Head(l) = SP THEN TrimLeft(Tail(l)) ELSE l

\* strings.HasPrefix(strings.TrimSpace(line), "#"); trailing space cannot
\* change the first character of a non-blank line
IsComment(l) ==
    LET t == TrimLeft(l) IN t # <<>> /\ t[1] = HASH

IsBlank(l) == \A i \in DOMAIN l : l[i] = SP

IndentOf(l) == Len(l) - Len(TrimLeft(l))

\* the loop of parseEditedContent: the lines that are not comments
cleanLines(lines) == SelectSeq(lines, LAMBDA l : ~IsComment(l))

\* a parse result: a ParseError, a nil map, or a map
ParseError == [err |-> TRUE, nil |-> FALSE, val |-> EmptyMap]
NilMap == [err |-> FALSE, nil |-> TRUE, val |-> EmptyMap]
Parsed(m) == [err |-> FALSE, nil |-> FALSE, val |-> m]

DigitChars == {"1", "2", "3", "4", "5", "6", "7", "8", "9"}
DigitVal(c) ==
    CASE c = "1" -> 1 [] c = "2" -> 2 [] c = "3" -> 3 [] c = "4" -> 4 [] c = "5" -> 5
      [] c = "6" -> 6 [] c = "7" -> 7 [] c = "8" -> 8 [] c = "9" -> 9

\* strings.Join(ls, "\n")
RECURSIVE JoinLines(_)
JoinLines(ls) ==
    IF ls = <<>> THEN <<>>
    ELSE IF Len(ls) = 1 THEN ls[1]
    ELSE ls[1] \o <<NL>> \o JoinLines(Tail(ls))

RECURSIVE StripBreaks(_)
StripBreaks(s) ==
    IF s # <<>> /\ s[Len(s)] = NL THEN StripBreaks(SubSeq(s, 1, Len(s)-1)) ELSE s

\* the first line at or after j that ends a block scalar of indentation ind:
\* a non-blank line indented less than ind; Len(lines)+1 at the end of input
RECURSIVE BlockEnd(_, _, _)
BlockEnd(lines, j, ind) ==
    IF j > Len(lines) THEN j
    ELSE IF ~IsBlank(lines[j]) /\ IndentOf(lines[j]) < ind THEN j
    ELSE BlockEnd(lines, j + 1, ind)

\* the indentation of the first non-blank line at or after j (0 if none):
\* the content indentation of a block scalar without an indentation indicator
RECURSIVE DetectIndent(_, _)
DetectIndent(lines, j) ==
    IF j > Len(lines) THEN 0
    ELSE IF ~IsBlank(lines[j]) THEN IndentOf(lines[j])
    ELSE DetectIndent(lines, j + 1)

\* the value of the literal block scalar whose header is line i, with hints
\* hs: [val, next] or [bad]
BlockScalar(lines, i, hs) ==
    LET hasInd == hs # <<>> /\ hs[1] \in DigitChars
        ch == IF hasInd THEN Tail(hs) ELSE hs
        okHints == ch \in {<<>>, <<"-">>, <<"+">>}
        ind == IF hasInd THEN DigitVal(hs[1]) ELSE DetectIndent(lines, i + 1)
        e == BlockEnd(lines, i + 1, IF ind = 0 THEN 1 ELSE ind)
        body == SubSeq(lines, i + 1, e - 1)
        content == [n \in 1..Len(body) |->
                       IF IsBlank(body[n]) THEN <<>>
                       ELSE SubSeq(body[n], ind + 1, Len(body[n]))]
        raw == IF body = <<>> THEN <<>>
               ELSE JoinLines(content) \o (IF e <= Len(lines) THEN <<NL>> ELSE <<>>)
        stripped == StripBreaks(raw)
        val == IF ch = <<"+">> THEN raw
               ELSE IF ch = <<"-">> THEN stripped
               ELSE IF stripped # <<>> /\ stripped # raw THEN stripped \o <<NL>>
               ELSE stripped
    IN  [bad |-> ~okHints, val |-> val, next |-> e]

IsKeyLine(l) ==
    /\ Len(l) >= 2
    /\ l[1] \in {KeyNames[i] : i \in DOMAIN KeyNames}
    /\ l[2] = ":"
    /\ (Len(l) = 2 \/ l[3] = SP)

Quoted(rest, q) ==
    /\ Len(rest) >= 2
    /\ rest[1] = q
    /\ rest[Len(rest)] = q
    /\ \A n \in 2..(Len(rest)-1) : rest[n] # q

\* the block mapping of "key: scalar" entries starting at line i, added to acc.
\* A repeated key is an error (yaml.v3 rejects duplicate mapping keys), and so
\* is an indented line outside a block scalar or a line that is no entry.
RECURSIVE ParseFrom(_, _, _)
ParseFrom(lines, i, acc) ==
    IF i > Len(lines) THEN Parsed(acc)
    ELSE IF IsBlank(lines[i]) THEN ParseFrom(lines, i + 1, acc)
    ELSE IF IndentOf(lines[i]) > 0 \/ ~IsKeyLine(lines[i]) THEN ParseError
    ELSE IF lines[i][1] \in DOMAIN acc THEN ParseError
    ELSE
      LET l == lines[i]
          k == l[1]
          rest == TrimLeft(SubSeq(l, 4, Len(l)))
          indentedNext == /\ i < Len(lines)
                          /\ ~IsBlank(lines[i+1])
                          /\ IndentOf(lines[i+1]) > 0
      IN  IF rest # <<>> /\ rest[1] = "|" THEN
              LET b == BlockScalar(lines, i, Tail(rest))
              IN  IF b.bad THEN ParseError
                  ELSE ParseFrom(lines, b.next, Put(acc, k, b.val))
          ELSE IF indentedNext THEN ParseError
          ELSE IF rest = <<>> \/ rest[1] = HASH THEN
              \* no value, or only a comment: null, the zero string
              ParseFrom(lines, i + 1, Put(acc, k, <<>>))
          ELSE IF rest[1] \in {"'", "\""} THEN
              IF Quoted(rest, rest[1])
              THEN ParseFrom(lines, i + 1, Put(acc, k, SubSeq(rest, 2, Len(rest)-1)))
              ELSE ParseError
          ELSE IF rest[1] \in {"{", "[", "~"} THEN ParseError
          ELSE ParseFrom(lines, i + 1, Put(acc, k, rest))

\* yaml.Unmarshal(text, &result) with result := make(map[string]string):
\* input without a document leaves result the empty map it was made as, a
\* null document sets it to nil, "{}" is the empty map, a scalar document
\* cannot be decoded into a map
Unmarshal(lines) ==
    LET nonblank == SelectSeq(lines, LAMBDA l : ~IsBlank(l))
    IN  IF nonblank = <<>> THEN Parsed(EmptyMap)
        ELSE IF nonblank = << <<"~">> >> THEN NilMap
        ELSE IF nonblank = << <<"{", "}">> >> THEN Parsed(EmptyMap)
        ELSE ParseFrom(lines, 1, EmptyMap)

parseEditedContent(content) == Unmarshal(cleanLines(content))

----------------------------------------------------------------------------
(* Round trip of the codec, on its own *)

\* the workflow's variables while a function is examined on its own
IdleRun ==
    /\ key = "" /\ stored = <<>> /\ secret = <<>> /\ decodedData = <<>>
    /\ editedData = <<>> /\ tmpExists = FALSE /\ tmpContent = <<>>
    /\ beforeContent = <<>> /\ afterContent = <<>> /\ outcome = ""
    /\ errKind = "" /\ log = <<>> /\ sent = <<>>

CodecInputs == MapsOver({KeyNames[i] : i \in 1..MaxCodecKeys}, Strings(MaxValLen))

InitCodec ==
    /\ pc = "codec"
    /\ args \in {[F |-> F] : F \in CodecInputs}
    /\ result = <<>>
    /\ IdleRun

\* write the edit document for args.F and read it back unedited
RoundTrip ==
    /\ pc = "codec"
    /\ pc' = "codecDone"
    /\ result' = parseEditedContent(createEditContent(args.F))
    /\ UNCHANGED <<key, stored, secret, decodedData, editedData, tmpExists, tmpContent,
                   beforeContent, afterContent, outcome, errKind, log, sent, args>>

NextCodec == RoundTrip

SpecCodec == InitCodec /\ [][NextCodec]_vars

----------------------------------------------------------------------------
(* Editor resolution: Complete -> resolveEditor *)

\* the fixed ordered defaults
DefaultEditors == <<"vim", "vi", "nano", "notepad">>

\* the loop over the defaults: the first one exec.LookPath finds
RECURSIVE lookDefaults(_, _)
lookDefaults(i, onPath) ==
    IF i > Len(DefaultEditors)
    THEN [err |-> TRUE, editor |-> ""]
    ELSE IF DefaultEditors[i] \in onPath
    THEN [err |-> FALSE, editor |-> DefaultEditors[i]]
    ELSE lookDefaults(i + 1, onPath)

\* resolveEditor with EDITOR consulted before KUBE_EDITOR
resolveEditorEnvFirst(flagEditor, kubeEditor, envEditor, onPath) ==
    IF flagEditor # "" THEN [err |-> FALSE, editor |-> flagEditor]
    ELSE IF envEditor # "" THEN [err |-> FALSE, editor |-> envEditor]
    ELSE IF kubeEditor # "" THEN [err |-> FALSE, editor |-> kubeEditor]
    ELSE lookDefaults(1, onPath)

\* o.editor is the --editor flag on entry; os.Getenv gives "" for an unset
\* variable
resolveEditor(flagEditor, kubeEditor, envEditor, onPath) ==
    IF flagEditor # "" THEN [err |-> FALSE, editor |-> flagEditor]
    ELSE IF kubeEditor # "" THEN [err |-> FALSE, editor |-> kubeEditor]
    ELSE IF envEditor # "" THEN [err |-> FALSE, editor |-> envEditor]
    ELSE lookDefaults(1, onPath)

InitResolve ==
    /\ pc = "resolveEditor"
    /\ args \in [flag : {"", "code --wait"}, kube : {"", "emacs"}, env : {"", "nano"},
                 onPath : SUBSET {DefaultEditors[i] : i \in DOMAIN DefaultEditors}]
    /\ result = <<>>
    /\ IdleRun

Resolve ==
    /\ pc = "resolveEditor"
    /\ pc' = "resolved"
    /\ result' = resolveEditor(args.flag, args.kube, args.env, args.onPath)
    /\ UNCHANGED <<key, stored, secret, decodedData, editedData, tmpExists, tmpContent,
                   beforeContent, afterContent, outcome, errKind, log, sent, args>>

NextResolve == Resolve

SpecResolve == InitResolve /\ [][NextResolve]_vars

----------------------------------------------------------------------------
(* Change detection *)

\* the byte comparison left out: every session counts as an edit
WasCancelledNever(before, after) == FALSE

\* bytes.Equal(beforeContent, afterContent)
WasCancelled(before, after) == before = after

\* hasChanges without the comparison of the sizes
hasChangesNoLen(original, edited) ==
    \E k \in DOMAIN edited : k \notin DOMAIN original \/ original[k] # edited[k]

\* hasChanges answering true for every pair
hasChangesAlways(original, edited) == TRUE

\* hasChanges: the sizes differ, or some entry of edited is missing from
\* original or has another value there
hasChanges(original, edited) ==
    IF Cardinality(DOMAIN original) # Cardinality(DOMAIN edited) THEN TRUE
    ELSE \E k \in DOMAIN edited : k \notin DOMAIN original \/ original[k] # edited[k]

\* the field values of a run
RunVals == << <<"x">>, <<"x", NL, HASH>>, <<"y">>, <<HASH, "x">> >>
Vals == {RunVals[i] : i \in 1..MaxVals}

InitChanges ==
    /\ pc = "hasChanges"
    /\ args \in [original : MapsOver(Keys, Vals), edited : MapsOver(Keys, Vals)]
    /\ result = <<>>
    /\ IdleRun

Changes ==
    /\ pc = "hasChanges"
    /\ pc' = "compared"
    /\ result' = hasChanges(args.original, args.edited)
    /\ UNCHANGED <<key, stored, secret, decodedData, editedData, tmpExists, tmpContent,
                   beforeContent, afterContent, outcome, errKind, log, sent, args>>

NextChanges == Changes

SpecChanges == InitChanges /\ [][NextChanges]_vars

----------------------------------------------------------------------------
(* The secret and the edit/reconcile workflow: Run *)

\* string(v) and []byte(v): Go copies the bytes, the content is the same
StringOf(v) == v
BytesOf(v) == v

NoSecret == [Data |-> EmptyMap, StringData |-> EmptyMap]

\* the value the repository holds for field KeyNames[i] before the run
InitVal(k) ==
    LET i == CHOOSE j \in DOMAIN KeyNames : KeyNames[j] = k
    IN  RunVals[((i - 1) % MaxVals) + 1]

\* the value of a legacy plain-text field
StrVal == RunVals[1]

\* the secrets a run may find: any set of fields in the byte-valued store,
\* at most one field in the string-valued store
InitSecrets ==
    {[Data |-> [k \in d |-> InitVal(k)], StringData |-> [k \in sd |-> StrVal]] :
        d \in SUBSET Keys, sd \in {x \in SUBSET Keys : Cardinality(x) <= 1}}

Init ==
    /\ pc = "Get"
    /\ key \in {"", KeyNames[1], KeyNames[2]}
    /\ stored \in InitSecrets
    /\ secret = NoSecret
    /\ decodedData = EmptyMap
    /\ editedData = NilMap
    /\ tmpExists = FALSE
    /\ tmpContent = <<>>
    /\ beforeContent = <<>>
    /\ afterContent = <<>>
    /\ outcome = ""
    /\ errKind = ""
    /\ log = <<>>
    /\ sent = NoSecret
    /\ args = <<>>
    /\ result = <<>>

\* return fmt.Errorf(...) out of Run
Fail(kind) ==
    /\ pc' = "done"
    /\ outcome' = "error"
    /\ errKind' = kind

\* Run, line 147: the one read of the secret
Get ==
    /\ pc = "Get"
    /\ log' = Append(log, "Get")
    /\ \/ /\ secret' = stored
          /\ pc' = "extractDecodedData"
          /\ UNCHANGED <<outcome, errKind>>
       \/ /\ Fail("SecretNotFound")
          /\ UNCHANGED secret
    /\ UNCHANGED <<key, stored, decodedData, editedData, tmpExists, tmpContent,
                   beforeContent, afterContent, sent, args, result>>

\* extractSingleKey: the byte-valued store first, then the string-valued one
extractSingleKey(sec, k) ==
    IF k \in DOMAIN sec.Data
    THEN [err |-> "", val |-> Put(EmptyMap, k, StringOf(sec.Data[k]))]
    ELSE IF k \in DOMAIN sec.StringData
    THEN [err |-> "", val |-> Put(EmptyMap, k, sec.StringData[k])]
    ELSE [err |-> "KeyNotFoundError", val |-> EmptyMap]

\* extractDecodedData: one key, or every field of the byte-valued store
extractDecodedDataOf(sec, k) ==
    IF k # "" THEN extractSingleKey(sec, k)
    ELSE IF DOMAIN sec.Data = {}
    THEN [err |-> "EmptySecretData", val |-> EmptyMap]
    ELSE [err |-> "", val |-> [x \in DOMAIN sec.Data |-> StringOf(sec.Data[x])]]

\* Run, lines 152-155
extractDecodedData ==
    /\ pc = "extractDecodedData"
    /\ LET r == extractDecodedDataOf(secret, key)
       IN  IF r.err # ""
           THEN Fail(r.err) /\ UNCHANGED decodedData
           ELSE /\ decodedData' = r.val
                /\ pc' = "writeTempFile"
                /\ UNCHANGED <<outcome, errKind>>
    /\ UNCHANGED <<key, stored, secret, editedData, tmpExists, tmpContent,
                   beforeContent, afterContent, log, sent, args, result>>

\* editInEditor, lines 221-227: createEditContent and writeTempFile.
\* os.CreateTemp may fail (no file), WriteString may fail (the file is
\* removed again)
writeTempFile ==
    /\ pc = "writeTempFile"
    /\ \/ /\ tmpExists' = TRUE
          /\ tmpContent' = createEditContent(decodedData)
          /\ log' = Append(log, "CreateTemp")
          /\ pc' = "readBefore"
          /\ UNCHANGED <<outcome, errKind>>
       \/ /\ Fail("TempFileError")
          /\ UNCHANGED <<tmpExists, tmpContent, log>>
       \/ /\ Fail("TempFileError")
          /\ log' = log \o <<"CreateTemp", "Remove">>
          /\ UNCHANGED <<tmpExists, tmpContent>>
    /\ UNCHANGED <<key, stored, secret, decodedData, editedData,
                   beforeContent, afterContent, sent, args, result>>

\* the deferred removal forgotten
deferRemoveLeak(exists) == exists

\* defer os.Remove(tmpPath): whether the file exists once editInEditor has
\* returned
deferRemove(exists) == FALSE

\* editInEditor returns: the deferred os.Remove runs
Return ==
    /\ tmpExists' = deferRemove(tmpExists)
    /\ tmpContent' = <<>>

\* editInEditor, lines 229-232
readBefore ==
    /\ pc = "readBefore"
    /\ \/ /\ beforeContent' = tmpContent
          /\ log' = Append(log, "ReadFile")
          /\ pc' = "runEditor"
          /\ UNCHANGED <<tmpExists, tmpContent, outcome, errKind>>
       \/ /\ Fail("TempFileError")
          /\ Return
          /\ log' = log \o <<"ReadFile", "Remove">>
          /\ UNCHANGED beforeContent
    /\ UNCHANGED <<key, stored, secret, decodedData, editedData,
                   afterContent, sent, args, result>>

\* the set of documents the user may leave in the file: each is the header
\* (kept, or with its first comment line rewritten) followed by the canonical
\* text of some field mapping, or by nothing; or the null document; or text
\* that is no mapping
HeaderEdited == << <<HASH, SP, "rewritten">> >> \o Tail(Header)

EditedDocs ==
    {h \o Marshal(E) \o << <<>> >> : h \in {Header, HeaderEdited}, E \in MapsOver(Keys, Vals)}
    \cup {Header \o << <<>> >>,
          Header \o << <<"~">>, <<>> >>,
          Header \o << <<"x">>, <<>> >>}

\* editInEditor, lines 234-236: runEditor blocks until the editor exits.  The
\* user leaves the file as it was or replaces its content; cmd.Run fails when
\* the editor cannot be started or exits with a non-zero status
runEditor ==
    /\ pc = "runEditor"
    /\ \/ /\ \E doc \in EditedDocs \cup {tmpContent} : tmpContent' = doc
          /\ log' = Append(log, "EditorOk")
          /\ pc' = "readAfter"
          /\ UNCHANGED <<tmpExists, outcome, errKind>>
       \/ /\ Fail("EditorLaunchError")
          /\ Return
          /\ log' = log \o <<"EditorFailed", "Remove">>
    /\ UNCHANGED <<key, stored, secret, decodedData, editedData,
                   beforeContent, afterContent, sent, args, result>>

\* editInEditor, lines 238-241
readAfter ==
    /\ pc = "readAfter"
    /\ \/ /\ afterContent' = tmpContent
          /\ log' = Append(log, "ReadFile")
          /\ pc' = "compare"
          /\ UNCHANGED <<tmpExists, tmpContent, outcome, errKind>>
       \/ /\ Fail("TempFileError")
          /\ Return
          /\ log' = log \o <<"ReadFile", "Remove">>
          /\ UNCHANGED afterContent
    /\ UNCHANGED <<key, stored, secret, decodedData, editedData,
                   beforeContent, sent, args, result>>

\* editInEditor, lines 243-247: nil when the bytes are the same, else the
\* parsed document; then the deferred removal
compare ==
    /\ pc = "compare"
    /\ Return
    /\ IF WasCancelled(beforeContent, afterContent)
       THEN /\ editedData' = NilMap
            /\ log' = Append(log, "Remove")
            /\ pc' = "checkChanges"
            /\ UNCHANGED <<outcome, errKind>>
       ELSE LET r == parseEditedContent(afterContent)
            IN  /\ log' = log \o <<"parseEditedContent", "Remove">>
                /\ IF r.err
                   THEN Fail("ParseError") /\ UNCHANGED editedData
                   ELSE /\ editedData' = r
                        /\ pc' = "checkChanges"
                        /\ UNCHANGED <<outcome, errKind>>
    /\ UNCHANGED <<key, stored, secret, decodedData,
                   beforeContent, afterContent, sent, args, result>>

\* Run, lines 162-170
checkChanges ==
    /\ pc = "checkChanges"
    /\ IF editedData.nil
       THEN pc' = "done" /\ outcome' = "cancelled"
       ELSE IF ~hasChanges(decodedData, editedData.val)
       THEN pc' = "done" /\ outcome' = "nochange"
       ELSE pc' = "applyChanges" /\ UNCHANGED outcome
    /\ UNCHANGED <<key, stored, secret, decodedData, editedData, tmpExists, tmpContent,
                   beforeContent, afterContent, errKind, log, sent, args, result>>

\* applyChanges writing every edited field also in single-key mode
applyDataAllKeys(data, k, original, edited) ==
    [x \in DOMAIN data \cup DOMAIN edited |->
        IF x \in DOMAIN edited THEN BytesOf(edited[x]) ELSE data[x]]

\* applyChanges without the loop that deletes the removed fields
applyDataNoDelete(data, k, original, edited) ==
    IF k # ""
    THEN IF k \in DOMAIN edited THEN Put(data, k, BytesOf(edited[k])) ELSE data
    ELSE [x \in DOMAIN data \cup DOMAIN edited |->
             IF x \in DOMAIN edited THEN BytesOf(edited[x]) ELSE data[x]]

\* applyChanges, lines 323-336: secret.Data after the edit is applied
applyData(data, k, original, edited) ==
    IF k # ""
    THEN IF k \in DOMAIN edited THEN Put(data, k, BytesOf(edited[k])) ELSE data
    ELSE LET kept == DOMAIN data \ {x \in DOMAIN original : x \notin DOMAIN edited}
         IN  [x \in kept \cup DOMAIN edited |->
                 IF x \in DOMAIN edited THEN BytesOf(edited[x]) ELSE data[x]]

\* applyChanges, line 338: secret.StringData = nil
applyStringData(strData) == EmptyMap

\* applyChanges: the one write; the repository keeps what it was sent, or
\* rejects the write and keeps what it had
applyChanges ==
    /\ pc = "applyChanges"
    /\ sent' = [Data |-> applyData(secret.Data, key, decodedData, editedData.val),
                StringData |-> applyStringData(secret.StringData)]
    /\ log' = Append(log, "Update")
    /\ pc' = "done"
    /\ \/ /\ stored' = sent'
          /\ outcome' = "applied"
          /\ UNCHANGED errKind
       \/ /\ outcome' = "error"
          /\ errKind' = "UpdateError"
          /\ UNCHANGED stored
    /\ UNCHANGED <<key, secret, decodedData, editedData, tmpExists, tmpContent,
                   beforeContent, afterContent, args, result>>

Next ==
    \/ Get
    \/ extractDecodedData
    \/ writeTempFile
    \/ readBefore
    \/ runEditor
    \/ readAfter
    \/ compare
    \/ checkChanges
    \/ applyChanges

Spec == Init /\ [][Next]_vars

----------------------------------------------------------------------------
(* Properties *)

Count(e) == Cardinality({i \in DOMAIN log : log[i] = e})
Called(e) == \E i \in DOMAIN log : log[i] = e

\* the editor exited successfully and the file was read back
SessionRead ==
    /\ Called("EditorOk")
    /\ pc \in {"compare", "checkChanges", "applyChanges", "done"}
    /\ errKind # "TempFileError"

\* C1: Get is called exactly once and first, Update at most once and last;
\* Update is called only after the editor exited successfully, the bytes
\* changed, the document parsed and the field sets differ; every error other
\* than a failed Update ends the run with no Update call and the stored secret
\* as it was read; a failed Update is not retried.
C1_ReadOnceWriteAtMostOnce ==
    /\ Count("Get") = (IF pc = "Get" THEN 0 ELSE 1)
    /\ (log # <<>> => log[1] = "Get")
    /\ Count("Update") <= 1
    /\ (Called("Update") =>
          /\ log[Len(log)] = "Update"
          /\ pc = "done"
          /\ Called("EditorOk")
          /\ beforeContent # afterContent
          /\ Called("parseEditedContent")
          /\ ~parseEditedContent(afterContent).err
          /\ ~editedData.nil
          /\ editedData.val # decodedData)
    /\ (outcome = "error" /\ errKind # "UpdateError" => ~Called("Update"))
    /\ (errKind = "UpdateError" => pc = "done" /\ Count("Update") = 1)
    /\ (pc = "done" /\ errKind # "SecretNotFound" /\ outcome # "applied" => stored = secret)

C1_Witness ==
    /\ pc = "done"
    /\ outcome = "applied"
    /\ log = <<"Get", "CreateTemp", "ReadFile", "EditorOk", "ReadFile",
               "parseEditedContent", "Remove", "Update">>

\* C2: when the editor session ends with the file's bytes as they were, the
\* outcome is "cancelled" and the document is not parsed; when the bytes differ
\* and the parsed mapping equals the decoded field set, the outcome is
\* "nochange"; neither calls Update; a finished run has exactly one of the
\* four outcomes, an unfinished one has none.
C2_TwoStageDetection ==
    /\ (pc = "done" /\ SessionRead /\ beforeContent = afterContent =>
          /\ outcome = "cancelled"
          /\ ~Called("parseEditedContent")
          /\ ~Called("Update"))
    /\ (pc = "done" /\ SessionRead /\ beforeContent # afterContent
          /\ parseEditedContent(afterContent) = Parsed(decodedData) =>
          /\ outcome = "nochange"
          /\ Called("parseEditedContent")
          /\ ~Called("Update"))
    /\ (outcome \in {"cancelled", "nochange"} => pc = "done" /\ stored = secret)
    /\ (pc = "done" <=> outcome \in {"cancelled", "nochange", "applied", "error"})
    /\ (pc # "done" => outcome = "")

\* only a comment line was edited
C2_Witness ==
    /\ pc = "done"
    /\ outcome = "nochange"
    /\ beforeContent # afterContent
    /\ cleanLines(beforeContent) = cleanLines(afterContent)

C4_SingleKeyFrame ==
    Called("Update") /\ key # "" =>
        \A k \in (DOMAIN sent.Data \cup DOMAIN secret.Data) \ {key} :
            /\ k \in DOMAIN sent.Data
            /\ k \in DOMAIN secret.Data
            /\ sent.Data[k] = secret.Data[k]

\* the edited document adds another key and changes the target key
C4_Witness ==
    /\ outcome = "applied"
    /\ key # ""
    /\ \E k \in DOMAIN editedData.val : k # key /\ k \notin DOMAIN secret.Data
    /\ key \in DOMAIN editedData.val
    /\ sent.Data # secret.Data

\* C5: in single-key mode, when the edited document parses and lacks the
\* target key, the run ends without an error and the stored secret is what it
\* was when read.
C5_DeleteIsNoOp ==
    (/\ pc = "done"
     /\ key # ""
     /\ Called("parseEditedContent")
     /\ errKind # "ParseError"
     /\ ~editedData.nil
     /\ key \notin DOMAIN editedData.val)
    => (outcome # "error" /\ stored = secret)

\* C6: in whole-secret mode the byte-valued store of the secret sent to Update
\* is the edited field set: the same keys, each with the bytes of its edited
\* value; after a successful apply the repository holds it.
C6_WholeSecretResult ==
    Called("Update") /\ key = "" =>
        /\ DOMAIN sent.Data = DOMAIN editedData.val
        /\ \A k \in DOMAIN sent.Data : sent.Data[k] = BytesOf(editedData.val[k])
        /\ \A k \in DOMAIN decodedData \ DOMAIN editedData.val : k \notin DOMAIN sent.Data
        /\ (outcome = "applied" => stored.Data = sent.Data)

\* one key kept unchanged, one deleted, one added
C6_Witness ==
    /\ outcome = "applied"
    /\ key = ""
    /\ \E k \in DOMAIN decodedData \cap DOMAIN editedData.val :
          decodedData[k] = editedData.val[k]
    /\ DOMAIN decodedData \ DOMAIN editedData.val # {}
    /\ DOMAIN editedData.val \ DOMAIN decodedData # {}

\* C7: the secret sent to Update has an empty string-valued store, and every
\* field the string-valued store held when the secret was read is in its
\* byte-valued store, unless the user deleted it in whole-secret mode.
C7_LegacyMigrated ==
    Called("Update") =>
        /\ sent.StringData = EmptyMap
        /\ \A k \in DOMAIN secret.StringData :
              \/ k \in DOMAIN sent.Data
              \/ (key = "" /\ k \in DOMAIN decodedData /\ k \notin DOMAIN editedData.val)

C9_HasChangesIffDifferent ==
    pc = "compared" =>
        (result <=>
            \/ DOMAIN args.original # DOMAIN args.edited
            \/ \E k \in DOMAIN args.original \cap DOMAIN args.edited :
                  args.original[k] # args.edited[k])

\* as many keys, but other keys
C9_Witness ==
    /\ pc = "compared"
    /\ Cardinality(DOMAIN args.original) = Cardinality(DOMAIN args.edited)
    /\ DOMAIN args.original # DOMAIN args.edited
    /\ \A k \in DOMAIN args.original \cap DOMAIN args.edited :
          args.original[k] = args.edited[k]
    /\ result = TRUE

\* C10: parsing the edit document written for a field mapping gives that
\* mapping back.
C10_RoundTrip ==
    pc = "codecDone" => result = Parsed(args.F)

====
